---- MODULE Spec2Model ----
(***************************************************************************)
(* Model of the perception_triage table labeler: the Streamlit session     *)
(* state (data_manager.py, ui_components.py, main.py), the persistent      *)
(* label file, and the offline table combiner (download_table.py).         *)
(*                                                                         *)
(* Text is a sequence of tokens (each token an atomic piece of text: a     *)
(* letter, a digit, "_", ",", a label name, a path piece), so that joining *)
(* and splitting are computed rather than assumed.  A table cell is a      *)
(* typed value [t, n, s]: an integer n or a text s.  A table is            *)
(* [cols, rows]: a set of column names and a sequence of rows (functions   *)
(* from column name to cell); a row's position is its pandas index.        *)
(***************************************************************************)
EXTENDS Integers, Sequences, FiniteSets, TLC

VARIABLES
    session,      \* session id -> st.session_state (a dict: key -> value)
    label_file,   \* data/labels.csv shared by every session
    artifact,     \* artifacts/labeled_table.csv: the last exported table
    fs,           \* the exported image files and their directories
    hist,         \* history: what the last handler call was and did
    pin,          \* offline script / pure functions: the input
    pout          \* offline script / pure functions: the result

vars == <<session, label_file, artifact, fs, hist, pin, pout>>

-----------------------------------------------------------------------------
(* Bounds of the model *)

\* the labels FRAME_LABELS[1..MaxLabelChoice] are the ones a user picks
MaxLabelChoice == 2
\* the number of handler calls a run is followed for: one session, two sessions
MaxSteps == 5
MaxStepsMulti == 6
\* the metric values 0..MaxMetric of the tables the combiner is given
MaxMetric == 2

-----------------------------------------------------------------------------
(* Text and cells *)

I(k) == [t |-> "int", n |-> k, s |-> <<>>]
S(x) == [t |-> "str", n |-> 0, s |-> x]
NaN == [t |-> "nan", n |-> 0, s |-> <<>>]

DigitTokens == <<"0", "1", "2", "3", "4", "5", "6", "7", "8", "9">>

RECURSIVE Digits(_)
Digits(k) == IF k < 10 THEN <<DigitTokens[k + 1]>>
             ELSE Digits(k \div 10) \o <<DigitTokens[(k % 10) + 1]>>

\* Python str(x) of a cell value / pandas astype(str)
str(v) == IF v.t = "int"
          THEN (IF v.n < 0 THEN <<"-">> \o Digits(-v.n) ELSE Digits(v.n))
          ELSE IF v.t = "nan" THEN <<"nan">> ELSE v.s

\* sep.join(parts), parts a sequence of texts
RECURSIVE join(_, _)
join(sep, parts) ==
    IF Len(parts) = 0 THEN <<>>
    ELSE IF Len(parts) = 1 THEN parts[1]
    ELSE parts[1] \o <<sep>> \o join(sep, Tail(parts))

\* text.split(sep): the pieces between the separators, in order
RECURSIVE split(_, _)
split(text, sep) ==
    IF \A i \in 1..Len(text) : text[i] # sep THEN <<text>>
    ELSE LET i == CHOOSE j \in 1..Len(text) :
                      text[j] = sep /\ \A k \in 1..(j - 1) : text[k] # sep
         IN <<SubSeq(text, 1, i - 1)>> \o split(SubSeq(text, i + 1, Len(text)), sep)

-----------------------------------------------------------------------------
(* config.py *)

FRAME_LABELS == <<"Pred:Bias", "Pred:FN", "Pred:FP", "Pred:Curve", "Pred:Occ",
                  "Pred:Branch", "Pred:Merge", "GT:Bias", "GT:FN", "GT:FP",
                  "GT:Elev", "GT:Incomp", "Normal">>

\* a label as the text of a cell
LabelCell(l) == S(<<l>>)

-----------------------------------------------------------------------------
(* Tables *)

NoneDF == [none |-> TRUE]
IsNone(df) == "none" \in DOMAIN df

Table(cols, rows) == [cols |-> cols, rows |-> rows]
EmptyDict == [k \in {} |-> 0]

\* df[col] = values, one per row (adds the column when missing)
SetColumn(df, col, values) ==
    Table(df.cols \cup {col},
          [i \in 1..Len(df.rows) |->
              [c \in df.cols \cup {col} |->
                  IF c = col THEN values[i] ELSE df.rows[i][c]]])

\* df.at[r_idx, col] = value (a missing column is created, NaN elsewhere)
SetAt(df, r_idx, col, value) ==
    Table(df.cols \cup {col},
          [i \in 1..Len(df.rows) |->
              [c \in df.cols \cup {col} |->
                  IF c = col
                  THEN (IF i = r_idx THEN value
                        ELSE IF col \in df.cols THEN df.rows[i][c] ELSE NaN)
                  ELSE df.rows[i][c]]])

\* an exception raised by a call
Raise == [raise |-> TRUE]
Raised(x) == "raise" \in DOMAIN x

-----------------------------------------------------------------------------
(* Column names are texts too: "frame_id_0" is "frame_id", "_", "0" *)

cFrameId == <<"frame_id">>
cLabel == <<"label">>
cMetric == <<"metric">>
cImgCache == <<"img_cache">>
cModelVersion == <<"model_version">>
cBonus == <<"bonus">>

\* f"{name}_{i}"
Indexed(name, i) == name \o <<"_">> \o Digits(i)

-----------------------------------------------------------------------------
(* download_table.py: the per-model table and the two-table combiner *)

\* main, lines 60-67: a per-model table has frame_id, img_cache, model_version
\* beside the columns of the run (here one metric); cache paths are written
\* relative to the artifact root directory
SingleTable(mv, fids, metrics) ==
    Table({cFrameId, cMetric, cImgCache, cModelVersion},
          [i \in 1..Len(fids) |->
              [c \in {cFrameId, cMetric, cImgCache, cModelVersion} |->
                  CASE c = cFrameId -> I(fids[i])
                    [] c = cMetric -> I(metrics[i])
                    [] c = cImgCache ->
                         S(mv \o <<"/media/">> \o Digits(fids[i]) \o <<".png">>)
                    [] OTHER -> S(mv)]])

\* a cell of row i of a table, NaN where pandas' index alignment finds no row
CellAt(df, i, col) == IF i <= Len(df.rows) THEN df.rows[i][col] ELSE NaN

\* b - a on two cells (NaN when either is missing)
CellSub(b, a) == IF a.t = "int" /\ b.t = "int" THEN I(b.n - a.n) ELSE NaN

\* lines 25-27: df_list[1][metric] - df_list[0][metric]
MetricDiffSwapped(df_list, i, metric) ==
    CellSub(CellAt(df_list[1], i, metric), CellAt(df_list[2], i, metric))

MetricDiff(df_list, i, metric) ==
    CellSub(CellAt(df_list[2], i, metric), CellAt(df_list[1], i, metric))

\* the two cache paths joined the other way round
CombinedCacheSwapped(df_list, i, cache) ==
    S(str(CellAt(df_list[2], i, cache)) \o <<",">> \o str(CellAt(df_list[1], i, cache)))

\* lines 20-22: the two cache paths joined by a comma
CombinedCache(df_list, i, cache) ==
    S(str(CellAt(df_list[1], i, cache)) \o <<",">> \o str(CellAt(df_list[2], i, cache)))

MaxOf(a, b) == IF a >= b THEN a ELSE b

\* a combiner that takes the first two tables of a longer list
combine_tables_first_two(df_list, cache_img_column_name, metrics_for_diff) ==
    IF Len(df_list) < 2 THEN Raise
    ELSE
    LET A == df_list[1]
        B == df_list[2]
        n == MaxOf(Len(A.rows), Len(B.rows))
        colsA == {Indexed(c, 0) : c \in A.cols}
        colsB == {Indexed(c, 1) : c \in B.cols}
        concat == Table(colsA \cup colsB,
                    [i \in 1..n |->
                       [c \in colsA \cup colsB |->
                          IF \E a \in A.cols : c = Indexed(a, 0)
                          THEN CellAt(A, i, CHOOSE a \in A.cols : c = Indexed(a, 0))
                          ELSE CellAt(B, i, CHOOSE b \in B.cols : c = Indexed(b, 1))]])
    IN  IF cache_img_column_name \notin A.cols \/ cache_img_column_name \notin B.cols
           \/ metrics_for_diff \notin A.cols \/ metrics_for_diff \notin B.cols
           \/ cFrameId \notin A.cols
        THEN Raise
        ELSE
        LET withCache == SetColumn(concat, cache_img_column_name,
                            [i \in 1..n |-> CombinedCache(df_list, i, cache_img_column_name)])
            withDiff == SetColumn(withCache, metrics_for_diff \o <<"_diff">>,
                            [i \in 1..n |-> MetricDiff(df_list, i, metrics_for_diff)])
        IN  SetColumn(withDiff, cFrameId,
                      [i \in 1..n |-> withDiff.rows[i][Indexed(cFrameId, 0)]])

\* lines 15-29
combine_tables(df_list, cache_img_column_name, metrics_for_diff) ==
    IF Len(df_list) # 2 THEN Raise
    ELSE
    LET A == df_list[1]
        B == df_list[2]
        n == MaxOf(Len(A.rows), Len(B.rows))
        colsA == {Indexed(c, 0) : c \in A.cols}
        colsB == {Indexed(c, 1) : c \in B.cols}
        concat == Table(colsA \cup colsB,
                    [i \in 1..n |->
                       [c \in colsA \cup colsB |->
                          IF \E a \in A.cols : c = Indexed(a, 0)
                          THEN CellAt(A, i, CHOOSE a \in A.cols : c = Indexed(a, 0))
                          ELSE CellAt(B, i, CHOOSE b \in B.cols : c = Indexed(b, 1))]])
    IN  IF cache_img_column_name \notin A.cols \/ cache_img_column_name \notin B.cols
           \/ metrics_for_diff \notin A.cols \/ metrics_for_diff \notin B.cols
           \/ cFrameId \notin A.cols
        THEN Raise
        ELSE
        LET withCache == SetColumn(concat, cache_img_column_name,
                            [i \in 1..n |-> CombinedCache(df_list, i, cache_img_column_name)])
            withDiff == SetColumn(withCache, metrics_for_diff \o <<"_diff">>,
                            [i \in 1..n |-> MetricDiff(df_list, i, metrics_for_diff)])
        IN  SetColumn(withDiff, cFrameId,
                      [i \in 1..n |-> withDiff.rows[i][Indexed(cFrameId, 0)]])

-----------------------------------------------------------------------------
(* The uploaded CSV files (what pd.read_csv returns for each) *)

mvA == <<"a">>
mvB == <<"b">>

TableA == SingleTable(mvA, <<1, 2>>, <<1, 2>>)
TableA2 == SingleTable(mvA, <<2, 3>>, <<2, 0>>)
TableB == SingleTable(mvB, <<1, 2>>, <<2, 0>>)
\* a table that comes with a label column of its own
TableLabelled ==
    SetColumn(TableA, cLabel, <<S(<<FRAME_LABELS[13]>>), S(<<"car">>)>>)

Files ==
    [single_a |-> TableA,
     single_a2 |-> TableA2,
     diff_ab |-> combine_tables(<<TableA, TableB>>, cImgCache, cMetric),
     diff_aa |-> combine_tables(<<TableA, SingleTable(mvA, <<1, 2>>, <<2, 0>>)>>,
                                cImgCache, cMetric),
     labelled |-> TableLabelled,
     empty |-> Table({cFrameId, cModelVersion}, <<>>),
     no_version |-> Table({cFrameId, cMetric},
                          <<[c \in {cFrameId, cMetric} |-> I(1)]>>),
     no_frame_id |-> Table({cModelVersion, cMetric},
                           <<[c \in {cModelVersion, cMetric} |->
                                 IF c = cMetric THEN I(1) ELSE S(mvA)]>>)]

FileNames == DOMAIN Files

-----------------------------------------------------------------------------
(* data_manager.py: session state *)

PageUpload == "Data Upload & Configuration"
PagePreview == "Data Preview"

session_defaults ==
    [df |-> NoneDF,
     current_df |-> NoneDF,
     display_types |-> EmptyDict,
     labels |-> EmptyDict,
     current_page |-> 1,
     rows_per_page |-> 10,
     page |-> PageUpload,
     sort_column |-> <<>>,
     sort_ascending |-> TRUE,
     sql_query |-> "None",
     new_col_sql |-> "None",
     uploaded_file |-> "None",
     frame_labels |-> EmptyDict,
     model_versions |-> <<>>]

\* a start of run that sets every key to its default
init_session_state_overwrite(ss) == session_defaults

\* lines 44-46: a key is set only when it is absent
init_session_state(ss) ==
    [k \in DOMAIN ss \cup DOMAIN session_defaults |->
        IF k \in DOMAIN ss THEN ss[k] ELSE session_defaults[k]]

-----------------------------------------------------------------------------
(* The frame key *)

\* a key of the first model version and the frame id alone
get_frame_uuid_first_version(ss, row) ==
    IF cFrameId \notin DOMAIN row THEN Raise
    ELSE IF \E i \in 1..Len(ss.model_versions) : ss.model_versions[i].t # "str"
    THEN Raise
    ELSE IF Len(ss.model_versions) = 0 THEN S(str(row[cFrameId]))
    ELSE S(join("_", <<ss.model_versions[1].s, str(row[cFrameId])>>))

\* data_manager.py lines 114-115; KeyError without a frame_id column,
\* TypeError when a model version is not text
get_frame_uuid(ss, row) ==
    IF cFrameId \notin DOMAIN row THEN Raise
    ELSE IF \E i \in 1..Len(ss.model_versions) : ss.model_versions[i].t # "str"
    THEN Raise
    ELSE S(join("_", [i \in 1..Len(ss.model_versions) |-> ss.model_versions[i].s]
                     \o <<str(row[cFrameId])>>))

\* table_labeler.py lines 107-112
get_frame_id(row) ==
    IF cFrameId \in DOMAIN row THEN S(str(row[cFrameId]))
    ELSE IF Indexed(cFrameId, 0) \in DOMAIN row THEN S(str(row[Indexed(cFrameId, 0)]))
    ELSE Raise

\* table_labeler.py lines 102-105
labeler_get_frame_uuid(ss, row) ==
    IF Raised(get_frame_id(row)) THEN Raise
    ELSE IF \E i \in 1..Len(ss.model_versions) : ss.model_versions[i].t # "str"
    THEN Raise
    ELSE S(join("_", [i \in 1..Len(ss.model_versions) |-> ss.model_versions[i].s]
                     \o <<get_frame_id(row).s>>))

-----------------------------------------------------------------------------
(* The label store: data/labels.csv.  The file is its set of data rows,   *)
(* each the text of the uuid and of the label; no code reads row order.   *)

NoFile == [exists |-> FALSE, rows |-> {}]

\* a writer that puts the two columns the other way round
SavedRowsSwapped(frame_labels) ==
    {[uuid |-> str(frame_labels[k]), label |-> str(k)] : k \in DOMAIN frame_labels}

\* lines 224-228: the whole map, one row per entry
SavedRows(frame_labels) ==
    {[uuid |-> str(k), label |-> str(frame_labels[k])] : k \in DOMAIN frame_labels}

save_frame_labels(ss) == [exists |-> TRUE, rows |-> SavedRows(ss.frame_labels)]

IsDigit(tok) == \E i \in 1..10 : DigitTokens[i] = tok
IsNumeric(text) == Len(text) > 0 /\ \A i \in 1..Len(text) : IsDigit(text[i])
DigitValue(tok) == (CHOOSE i \in 1..10 : DigitTokens[i] = tok) - 1

RECURSIVE ParseInt(_)
ParseInt(text) ==
    IF Len(text) = 0 THEN 0
    ELSE 10 * ParseInt(SubSeq(text, 1, Len(text) - 1)) + DigitValue(text[Len(text)])

\* pd.read_csv infers a column's type from all its values: a column of
\* numbers only is read as integers, an empty field as NaN
ReadColumnCell(text, allNumeric) ==
    IF Len(text) = 0 THEN NaN
    ELSE IF allNumeric THEN I(ParseInt(text))
    ELSE S(text)

\* a reader that zips the two columns the other way round
read_frame_labels_swapped(file) ==
    [k \in {S(r.label) : r \in file.rows} |->
        S((CHOOSE r \in file.rows : S(r.label) = k).uuid)]

\* lines 62-65: dict(zip(label_df["uuid"], label_df["label"]))
read_frame_labels(file) ==
    LET uuidNumeric == \A r \in file.rows : IsNumeric(r.uuid) \/ Len(r.uuid) = 0
        labelNumeric == \A r \in file.rows : IsNumeric(r.label) \/ Len(r.label) = 0
        key(r) == ReadColumnCell(r.uuid, uuidNumeric)
    IN  [k \in {key(r) : r \in file.rows} |->
            ReadColumnCell((CHOOSE r \in file.rows : key(r) = k).label, labelNumeric)]

-----------------------------------------------------------------------------
(* data_manager.py: the upload handler.  A handler's result is the session *)
(* state it leaves and whether it raised; an exception ends the script run *)
(* and keeps whatever was already written to the session state.            *)

Done(ss) == [ss |-> ss, raised |-> FALSE]
Failed(ss) == [ss |-> ss, raised |-> TRUE]

\* the model versions of a diff table taken in the other order
init_model_versions_swapped(ss) ==
    IF Len(ss.df.rows) = 0 THEN Failed(ss)
    ELSE IF cModelVersion \in ss.df.cols
    THEN Done([ss EXCEPT !.model_versions = <<ss.df.rows[1][cModelVersion]>>])
    ELSE IF Indexed(cModelVersion, 0) \in ss.df.cols
            /\ Indexed(cModelVersion, 1) \in ss.df.cols
    THEN Done([ss EXCEPT !.model_versions =
                  <<ss.df.rows[1][Indexed(cModelVersion, 1)],
                    ss.df.rows[1][Indexed(cModelVersion, 0)]>>])
    ELSE Failed(ss)

\* model versions appended to the ones of the earlier upload
init_model_versions_append(ss) ==
    IF Len(ss.df.rows) = 0 THEN Failed(ss)
    ELSE IF cModelVersion \in ss.df.cols
    THEN Done([ss EXCEPT !.model_versions = @ \o <<ss.df.rows[1][cModelVersion]>>])
    ELSE IF Indexed(cModelVersion, 0) \in ss.df.cols
            /\ Indexed(cModelVersion, 1) \in ss.df.cols
    THEN Done([ss EXCEPT !.model_versions =
                  @ \o <<ss.df.rows[1][Indexed(cModelVersion, 0)],
                         ss.df.rows[1][Indexed(cModelVersion, 1)]>>])
    ELSE Failed(ss)

\* lines 84-91
init_model_versions(ss) ==
    IF Len(ss.df.rows) = 0 THEN Failed(ss)
    ELSE IF cModelVersion \in ss.df.cols
    THEN Done([ss EXCEPT !.model_versions = <<ss.df.rows[1][cModelVersion]>>])
    ELSE IF Indexed(cModelVersion, 0) \in ss.df.cols
            /\ Indexed(cModelVersion, 1) \in ss.df.cols
    THEN Done([ss EXCEPT !.model_versions =
                  <<ss.df.rows[1][Indexed(cModelVersion, 0)],
                    ss.df.rows[1][Indexed(cModelVersion, 1)]>>])
    ELSE Failed(ss)

\* a loader that looks the label up by the frame id alone
LoaderLabelByFrameId(ss, row) ==
    IF S(str(row[cFrameId])) \in DOMAIN ss.frame_labels
    THEN ss.frame_labels[S(str(row[cFrameId]))]
    ELSE LabelCell(FRAME_LABELS[1])

\* lines 98-102, one row: the label the loader gives it
LoaderLabel(ss, row) ==
    IF get_frame_uuid(ss, row) \in DOMAIN ss.frame_labels
    THEN ss.frame_labels[get_frame_uuid(ss, row)]
    ELSE LabelCell(FRAME_LABELS[1])

\* a loader that keeps the label column of the uploaded table
init_frame_labels_keep(ss) ==
    IF cLabel \in ss.df.cols THEN Done(ss)
    ELSE
    LET defaulted == SetColumn(ss.df, cLabel,
                        [i \in 1..Len(ss.df.rows) |-> LabelCell(FRAME_LABELS[1])])
    IN  IF \E i \in 1..Len(ss.df.rows) : Raised(get_frame_uuid(ss, defaulted.rows[i]))
        THEN Failed([ss EXCEPT !.df = defaulted])
        ELSE Done([ss EXCEPT !.df = SetColumn(ss.df, cLabel,
                      [i \in 1..Len(ss.df.rows) |-> LoaderLabel(ss, defaulted.rows[i])])])

\* lines 96-102
init_frame_labels(ss) ==
    LET defaulted == SetColumn(ss.df, cLabel,
                        [i \in 1..Len(ss.df.rows) |-> LabelCell(FRAME_LABELS[1])])
    IN  IF \E i \in 1..Len(ss.df.rows) : Raised(get_frame_uuid(ss, defaulted.rows[i]))
        THEN Failed([ss EXCEPT !.df = defaulted])
        ELSE Done([ss EXCEPT !.df = SetColumn(ss.df, cLabel,
                      [i \in 1..Len(ss.df.rows) |-> LoaderLabel(ss, defaulted.rows[i])])])

\* lines 61-65
LoadLabelsOnUpload(ss, file) ==
    IF file.exists THEN [ss EXCEPT !.frame_labels = read_frame_labels(file)] ELSE ss

\* a handler that starts the view afresh with every new file
handle_file_upload_reset_view(ss, file, uploaded_file) ==
    IF uploaded_file = "None" \/ uploaded_file = ss.uploaded_file THEN Done(ss)
    ELSE
    LET ss1 == LoadLabelsOnUpload(ss, file)
        ss2 == [ss1 EXCEPT !.df = Files[uploaded_file]]
        r3 == init_model_versions(ss2)
        r4 == init_frame_labels(r3.ss)
    IN  IF r3.raised THEN r3
        ELSE IF r4.raised THEN r4
        ELSE Done([r4.ss EXCEPT !.current_df = r4.ss.df,
                                !.display_types = EmptyDict,
                                !.labels = EmptyDict,
                                !.current_page = 1,
                                !.sort_column = <<>>,
                                !.sort_ascending = TRUE,
                                !.rows_per_page = 10,
                                !.uploaded_file = uploaded_file])

\* a handler that loads the file the uploader holds on every run
handle_file_upload_always(ss, file, uploaded_file) ==
    IF uploaded_file = "None" THEN Done(ss)
    ELSE
    LET ss1 == LoadLabelsOnUpload(ss, file)
        ss2 == [ss1 EXCEPT !.df = Files[uploaded_file]]
        r3 == init_model_versions(ss2)
        r4 == init_frame_labels(r3.ss)
    IN  IF r3.raised THEN r3
        ELSE IF r4.raised THEN r4
        ELSE Done([r4.ss EXCEPT !.current_df = r4.ss.df,
                                !.display_types = EmptyDict,
                                !.labels = EmptyDict,
                                !.current_page = 1,
                                !.uploaded_file = uploaded_file])

\* lines 60-75
handle_file_upload(ss, file, uploaded_file) ==
    IF uploaded_file = "None" \/ uploaded_file = ss.uploaded_file THEN Done(ss)
    ELSE
    LET ss1 == LoadLabelsOnUpload(ss, file)
        ss2 == [ss1 EXCEPT !.df = Files[uploaded_file]]
        r3 == init_model_versions(ss2)
        r4 == init_frame_labels(r3.ss)
    IN  IF r3.raised THEN r3
        ELSE IF r4.raised THEN r4
        ELSE Done([r4.ss EXCEPT !.current_df = r4.ss.df,
                                !.display_types = EmptyDict,
                                !.labels = EmptyDict,
                                !.current_page = 1,
                                !.uploaded_file = uploaded_file])

-----------------------------------------------------------------------------
(* The embedded query engine (duckdb), on the queries the user may type.  *)
(* A query returns a new table or fails.                                  *)

\* the queries typed into "Input SQL Query"
Queries == {"where_frame", "no_rows", "exclude_frame_id", "bad"}
\* the queries typed into "SQL for new column"
AddQueries == {"bonus", "where_frame", "bad"}

Project(df, cols) ==
    Table(cols, [i \in 1..Len(df.rows) |-> [c \in cols |-> df.rows[i][c]]])

RECURSIVE FilterFrame(_, _)
FilterFrame(rows, fid) ==
    IF Len(rows) = 0 THEN <<>>
    ELSE IF rows[1][cFrameId] = I(fid) THEN <<rows[1]>> \o FilterFrame(Tail(rows), fid)
    ELSE FilterFrame(Tail(rows), fid)

CellDouble(a) == IF a.t = "int" THEN I(2 * a.n) ELSE NaN

\* data_manager.py lines 128-131, 147-150: select_all is SELECT * FROM
\* current_df, where_frame keeps the rows of frame 2, no_rows keeps none, exclude_frame_id selects every column but frame_id,
\* bonus adds a column computed from the metric; a malformed query, or one
\* naming a column the table lacks, fails
Engine(query, df) ==
    CASE query = "select_all" -> df
      [] query = "where_frame" ->
            IF cFrameId \in df.cols THEN Table(df.cols, FilterFrame(df.rows, 2)) ELSE Raise
      [] query = "no_rows" -> Table(df.cols, <<>>)
      [] query = "exclude_frame_id" ->
            IF cFrameId \in df.cols /\ df.cols # {cFrameId}
            THEN Project(df, df.cols \ {cFrameId}) ELSE Raise
      [] query = "bonus" ->
            IF cMetric \in df.cols
            THEN SetColumn(df, cBonus, [i \in 1..Len(df.rows) |-> CellDouble(df.rows[i][cMetric])])
            ELSE Raise
      [] OTHER -> Raise

-----------------------------------------------------------------------------
(* data_manager.py: the SQL handlers.  error: the message st.error shows. *)

Result(ss, error) == [ss |-> ss, error |-> error]

\* lines 159-160
copy_original_to_current(ss) ==
    [ss EXCEPT !.current_df = ss.df, !.current_page = 1]

\* a handler that stores the query's result in the original table as well
apply_sql_query_into_df(ss, query) ==
    LET ss1 == [ss EXCEPT !.current_df = ss.df, !.current_page = 1]
        result == Engine(query, ss1.current_df)
    IN  IF Raised(result) THEN [ss |-> ss1, error |-> TRUE]
        ELSE [ss |-> [ss1 EXCEPT !.current_df = result, !.df = result,
                                 !.current_page = 1],
              error |-> FALSE]

\* a handler that runs the query on the working table as it stands
apply_sql_query_cumulative(ss, query) ==
    LET result == Engine(query, ss.current_df)
    IN  IF Raised(result) THEN Result(ss, TRUE)
        ELSE Result([ss EXCEPT !.current_df = result, !.current_page = 1], FALSE)

\* lines 127-135
apply_sql_query(ss, query) ==
    LET ss1 == copy_original_to_current(ss)
        result == Engine(query, ss1.current_df)
    IN  IF Raised(result) THEN Result(ss1, TRUE)
        ELSE Result([ss1 EXCEPT !.current_df = result, !.current_page = 1], FALSE)

\* a handler that falls back to the original table when the query fails
add_computed_column_reset(ss, query) ==
    LET new_df == Engine(query, ss.current_df)
    IN  IF Raised(new_df) THEN Result(copy_original_to_current(ss), TRUE)
        ELSE Result([ss EXCEPT !.current_df = new_df, !.current_page = 1], FALSE)

\* lines 147-154
add_computed_column(ss, query) ==
    LET new_df == Engine(query, ss.current_df)
    IN  IF Raised(new_df) THEN Result(ss, TRUE)
        ELSE Result([ss EXCEPT !.current_df = new_df, !.current_page = 1], FALSE)

-----------------------------------------------------------------------------
(* ui_components.py: sorting and paging of the preview *)

Perms(n) == {p \in [1..n -> 1..n] : \A i, j \in 1..n : p[i] = p[j] => i = j}
Identity(n) == [i \in 1..n |-> i]

\* a before-or-equal b in sort_values: integers by value, NaN last
CellLeq(a, b, ascending) ==
    IF b.t = "nan" THEN TRUE
    ELSE IF a.t = "nan" THEN FALSE
    ELSE IF ascending THEN a.n <= b.n ELSE a.n >= b.n

\* lines 322-329: the row orders sort_values may give; a failed sort (missing
\* column, values that do not compare) shows the table unsorted.  The order
\* of equal keys, and of text, is left open.
sort_dataframe(ss, df) ==
    LET n == Len(df.rows)
        col == ss.sort_column
    IN  IF col \notin df.cols THEN {Identity(n)}
        ELSE IF \A i \in 1..n : df.rows[i][col].t = "str" THEN Perms(n)
        ELSE IF \E i \in 1..n : df.rows[i][col].t = "str" THEN {Identity(n)}
        ELSE {p \in Perms(n) :
                \A i, j \in 1..n :
                    i < j => CellLeq(df.rows[p[i]][col], df.rows[p[j]][col], ss.sort_ascending)}

\* lines 170-172
DisplayOrders(ss) ==
    IF ss.sort_column # <<>> THEN sort_dataframe(ss, ss.current_df)
    ELSE {Identity(Len(ss.current_df.rows))}

\* line 130: math.ceil(len(df) / rows_per_page)
total_pages(ss) == (Len(ss.current_df.rows) + ss.rows_per_page - 1) \div ss.rows_per_page

\* lines 143-150: st.number_input raises unless min <= value <= max
PageInputValid(ss) == 1 <= ss.current_page /\ ss.current_page <= total_pages(ss)

\* lines 178-180: the indices of the rows on the current page
PageRows(ss) ==
    LET n == Len(ss.current_df.rows)
        start_idx == (ss.current_page - 1) * ss.rows_per_page
        end_idx == start_idx + ss.rows_per_page
    IN  {p[j] : p \in DisplayOrders(ss),
                j \in {k \in 1..n : start_idx < k /\ k <= end_idx}}

\* lines 139-158: click is "prev", "next" or "goto" (with the page typed)
pagination_controls(ss, click, new_page) ==
    IF click = "prev"
    THEN (IF ss.current_page > 1
          THEN [ss EXCEPT !.current_page = ss.current_page - 1] ELSE ss)
    ELSE IF click = "goto"
    THEN (IF new_page # ss.current_page
          THEN [ss EXCEPT !.current_page = new_page] ELSE ss)
    ELSE (IF ss.current_page < total_pages(ss)
          THEN [ss EXCEPT !.current_page = ss.current_page + 1] ELSE ss)

\* a click that always sorts ascending
handle_sort_click_always_ascending(ss, col_name) ==
    [ss EXCEPT !.sort_column = col_name, !.sort_ascending = TRUE]

\* lines 302-306
handle_sort_click(ss, col_name) ==
    IF ss.sort_column = col_name
    THEN [ss EXCEPT !.sort_ascending = ~ss.sort_ascending]
    ELSE [ss EXCEPT !.sort_column = col_name, !.sort_ascending = TRUE]

\* lines 45-46
select_page(ss, selected_page) ==
    IF selected_page # ss.page THEN [ss EXCEPT !.page = selected_page] ELSE ss

\* lines 60-62
set_rows_per_page(ss, new_rows) ==
    IF new_rows # ss.rows_per_page
    THEN [ss EXCEPT !.rows_per_page = new_rows, !.current_page = 1] ELSE ss

DictGet(d, k, default) == IF k \in DOMAIN d THEN d[k] ELSE default

\* lines 99-118: every column of the working table gets its display type and
\* its label written back; the user changes the type of column col
display_settings(ss, col, type) ==
    LET cols == ss.current_df.cols
    IN  [ss EXCEPT
            !.display_types =
                [c \in DOMAIN ss.display_types \cup cols |->
                    IF c = col THEN type ELSE DictGet(ss.display_types, c, "Text")],
            !.labels =
                [c \in DOMAIN ss.labels \cup cols |-> DictGet(ss.labels, c, c)]]

-----------------------------------------------------------------------------
(* ui_components.py: the label editor *)

IsFrameLabel(cell) == \E i \in 1..Len(FRAME_LABELS) : cell = LabelCell(FRAME_LABELS[i])

DictSet(d, k, v) == [x \in DOMAIN d \cup {k} |-> IF x = k THEN v ELSE d[x]]

EditResult(ss, file, raised) == [ss |-> ss, file |-> file, raised |-> raised]

\* an editor that writes the file before it updates the map
handle_label_edit_save_first(ss, file, current_value, row, r_idx, new_label) ==
    IF ~IsFrameLabel(current_value) THEN EditResult(ss, file, TRUE)
    ELSE IF LabelCell(new_label) = current_value THEN EditResult(ss, file, FALSE)
    ELSE IF Raised(get_frame_uuid(ss, row)) THEN EditResult(ss, file, TRUE)
    ELSE
    LET ss1 == [ss EXCEPT !.frame_labels =
                   DictSet(ss.frame_labels, get_frame_uuid(ss, row), LabelCell(new_label))]
    IN  EditResult([ss1 EXCEPT !.current_df =
                       SetAt(ss1.current_df, r_idx, cLabel, LabelCell(new_label))],
                   save_frame_labels(ss), FALSE)

\* an editor that adds its map to the rows the file already holds
handle_label_edit_merge(ss, file, current_value, row, r_idx, new_label) ==
    IF ~IsFrameLabel(current_value) THEN EditResult(ss, file, TRUE)
    ELSE IF LabelCell(new_label) = current_value THEN EditResult(ss, file, FALSE)
    ELSE IF Raised(get_frame_uuid(ss, row)) THEN EditResult(ss, file, TRUE)
    ELSE
    LET ss1 == [ss EXCEPT !.frame_labels =
                   DictSet(ss.frame_labels, get_frame_uuid(ss, row), LabelCell(new_label))]
        own == SavedRows(ss1.frame_labels)
        others == {r \in file.rows : \A o \in own : o.uuid # r.uuid}
    IN  EditResult([ss1 EXCEPT !.current_df =
                       SetAt(ss1.current_df, r_idx, cLabel, LabelCell(new_label))],
                   [exists |-> TRUE, rows |-> own \cup others], FALSE)

\* lines 234-245; file is data/labels.csv before the call
handle_label_edit(ss, file, current_value, row, r_idx, new_label) ==
    IF ~IsFrameLabel(current_value) THEN EditResult(ss, file, TRUE)
    ELSE IF LabelCell(new_label) = current_value THEN EditResult(ss, file, FALSE)
    ELSE IF Raised(get_frame_uuid(ss, row)) THEN EditResult(ss, file, TRUE)
    ELSE
    LET ss1 == [ss EXCEPT !.frame_labels =
                   DictSet(ss.frame_labels, get_frame_uuid(ss, row), LabelCell(new_label))]
        file1 == save_frame_labels(ss1)
    IN  EditResult([ss1 EXCEPT !.current_df =
                       SetAt(ss1.current_df, r_idx, cLabel, LabelCell(new_label))],
                   file1, FALSE)

-----------------------------------------------------------------------------
(* main.py: one run of the script in which the user changed no widget *)

\* ui_components.py lines 182-186: the rows of the page from index i on, each
\* label selectbox showing the label of its row; a selectbox that cannot show
\* the value ends the run
RECURSIVE RerunRows(_, _, _)
RerunRows(ss, file, i) ==
    IF i > Len(ss.current_df.rows) THEN EditResult(ss, file, FALSE)
    ELSE IF \/ i \notin PageRows(ss)
            \/ cLabel \notin ss.current_df.cols
            \/ DictGet(ss.display_types, cLabel, "Text") = "Image"
    THEN RerunRows(ss, file, i + 1)
    ELSE
    LET row == ss.current_df.rows[i]
        shown == IF IsFrameLabel(row[cLabel]) THEN row[cLabel].s[1] ELSE FRAME_LABELS[1]
        r == handle_label_edit(ss, file, row[cLabel], row, i, shown)
    IN  IF r.raised THEN r ELSE RerunRows(r.ss, r.file, i + 1)

\* main.py lines 13-37 with the uploader holding the file of uploaded_file,
\* no button clicked and no input changed
rerun(ss, file) ==
    IF ss.page = PageUpload
    THEN LET r == handle_file_upload(ss, file, ss.uploaded_file)
         IN  IF r.raised THEN EditResult(r.ss, file, TRUE)
             ELSE IF ~IsNone(r.ss.current_df)
             THEN EditResult(display_settings(r.ss, <<>>, "Text"), file, FALSE)
             ELSE EditResult(r.ss, file, FALSE)
    ELSE IF IsNone(ss.current_df) THEN EditResult(ss, file, FALSE)
    ELSE IF ~PageInputValid(ss) THEN EditResult(ss, file, TRUE)
    ELSE RerunRows(ss, file, 1)

-----------------------------------------------------------------------------
(* data_manager.py: the export *)

DstFolder == <<"artifacts/important_imgs">>

\* lines 200-202, one row: df.at[r_idx, f"img_cache_{i}"] = img_path for each piece
RECURSIVE SplitRow(_, _, _, _)
SplitRow(df, r_idx, img_paths, i) ==
    IF i > Len(img_paths) THEN df
    ELSE SplitRow(SetAt(df, r_idx, Indexed(cImgCache, i - 1), S(img_paths[i])),
                  r_idx, img_paths, i + 1)

RECURSIVE SplitRows(_, _)
SplitRows(df, r_idx) ==
    IF r_idx > Len(df.rows) THEN df
    ELSE SplitRows(SplitRow(df, r_idx, split(df.rows[r_idx][cImgCache].s, ","), 1),
                   r_idx + 1)

\* lines 199-203; KeyError without an img_cache column, AttributeError on a
\* cell that is not text
split_img_paths(df) ==
    IF Len(df.rows) = 0 THEN df
    ELSE IF cImgCache \notin df.cols THEN Raise
    ELSE IF \E i \in 1..Len(df.rows) : df.rows[i][cImgCache].t # "str" THEN Raise
    ELSE SplitRows(df, 1)

\* an image id with the frame id first
ImgUuidFrameFirst(model_version, row) ==
    S(str(row[cFrameId]) \o <<"_">> \o model_version.s)

\* line 217: model_version + "_" + df["frame_id"].astype(str), one row
ImgUuid(model_version, row) == S(model_version.s \o <<"_">> \o str(row[cFrameId]))

\* line 218: dst_folder / (img_uuid + ".png")
ImgDst(dst_folder, img_uuid) == S(dst_folder \o <<"/">> \o img_uuid.s \o <<".png">>)

RECURSIVE AddDstPaths(_, _, _, _)
AddDstPaths(df, model_versions, dst_folder, i) ==
    IF i > Len(model_versions) THEN df
    ELSE
    LET withUuid == SetColumn(df, Indexed(<<"img_uuid">>, i - 1),
                       [r \in 1..Len(df.rows) |-> ImgUuid(model_versions[i], df.rows[r])])
        withDst == SetColumn(withUuid, Indexed(<<"img_dst">>, i - 1),
                       [r \in 1..Len(df.rows) |->
                           ImgDst(dst_folder, withUuid.rows[r][Indexed(<<"img_uuid">>, i - 1)])])
    IN  AddDstPaths(withDst, model_versions, dst_folder, i + 1)

\* lines 216-219; KeyError without a frame_id column, TypeError when a model
\* version is not text
add_img_dst_paths(ss, df, dst_folder) ==
    IF Len(ss.model_versions) = 0 THEN df
    ELSE IF cFrameId \notin df.cols THEN Raise
    ELSE IF \E i \in 1..Len(ss.model_versions) : ss.model_versions[i].t # "str" THEN Raise
    ELSE AddDstPaths(df, ss.model_versions, dst_folder, 1)

\* the file system an export works on: the image files and the directories
\* that exist, and what the last export did, in order
NoFiles == [files |-> {}, dirs |-> {}, log |-> <<>>]

\* os.path.dirname: the path up to its last "/"
dirname(path) ==
    IF \A i \in 1..Len(path) : path[i] # "/" THEN <<>>
    ELSE SubSeq(path, 1, (CHOOSE i \in 1..Len(path) :
                             path[i] = "/" /\ \A j \in (i + 1)..Len(path) : path[j] # "/") - 1)

\* a copy loop that stops at the first missing source
RECURSIVE CopyFromRowOrStop(_, _, _, _, _, _)
CopyFromRowOrStop(fsys, df, img_column_name, cache_img_column_name, r, present) ==
    IF r > Len(df.rows) THEN fsys
    ELSE
    LET src_path == df.rows[r][img_column_name].s
        cache_path == df.rows[r][cache_img_column_name].s
    IN  IF src_path \notin present
        THEN [fsys EXCEPT !.log = Append(@, [ev |-> "warn", src |-> src_path])]
        ELSE CopyFromRowOrStop(
                 [files |-> fsys.files \cup {cache_path},
                  dirs |-> fsys.dirs \cup {dirname(cache_path)},
                  log |-> fsys.log \o <<[ev |-> "mkdir", dir |-> dirname(cache_path)],
                                        [ev |-> "copy", src |-> src_path,
                                         dst |-> cache_path]>>],
                 df, img_column_name, cache_img_column_name, r + 1, present)

\* download_data.py lines 43-54, from row r on: a source that does not exist
\* is warned about and skipped; otherwise the directory of the destination
\* is made and the file copied
RECURSIVE CopyFromRow(_, _, _, _, _, _)
CopyFromRow(fsys, df, img_column_name, cache_img_column_name, r, present) ==
    IF r > Len(df.rows) THEN fsys
    ELSE
    LET src_path == df.rows[r][img_column_name].s
        cache_path == df.rows[r][cache_img_column_name].s
    IN  IF src_path \notin present
        THEN CopyFromRow([fsys EXCEPT !.log = Append(@, [ev |-> "warn", src |-> src_path])],
                         df, img_column_name, cache_img_column_name, r + 1, present)
        ELSE CopyFromRow(
                 [files |-> fsys.files \cup {cache_path},
                  dirs |-> fsys.dirs \cup {dirname(cache_path)},
                  log |-> fsys.log \o <<[ev |-> "mkdir", dir |-> dirname(cache_path)],
                                        [ev |-> "copy", src |-> src_path,
                                         dst |-> cache_path]>>],
                 df, img_column_name, cache_img_column_name, r + 1, present)

\* download_data.py lines 35-54
copy_src_imgs_to_cache(fsys, df, img_column_name, cache_img_column_name, present) ==
    CopyFromRow(fsys, df, img_column_name, cache_img_column_name, 1, present)

\* data_utils.copy_src_imgs_to_dst: the same loop over a source and a
\* destination column
copy_src_imgs_to_dst(files, df, src_col, dst_col, present) ==
    copy_src_imgs_to_cache(files, df, src_col, dst_col, present)

ExportResult(files, csv, raised) == [fs |-> files, csv |-> csv, raised |-> raised]

\* lines 180-183: the copy loop over the model versions; KeyError when a
\* column img_cache_i is missing
RECURSIVE CopyLoop(_, _, _, _, _)
CopyLoop(files, df, n, i, present) ==
    IF i > n THEN ExportResult(files, df, FALSE)
    ELSE IF Indexed(cImgCache, i - 1) \notin df.cols
            \/ Indexed(<<"img_dst">>, i - 1) \notin df.cols
    THEN ExportResult(files, df, TRUE)
    ELSE CopyLoop(copy_src_imgs_to_dst(files, df, Indexed(cImgCache, i - 1),
                                       Indexed(<<"img_dst">>, i - 1), present),
                  df, n, i + 1, present)

\* lines 175-187; csv is artifacts/labeled_table.csv before the call, present
\* the source images that exist
save_current_df(ss, df, files, csv, present) ==
    IF IsNone(df) THEN ExportResult(files, csv, TRUE)
    ELSE IF Raised(split_img_paths(df)) THEN ExportResult(files, csv, TRUE)
    ELSE IF Raised(add_img_dst_paths(ss, split_img_paths(df), DstFolder))
    THEN ExportResult(files, csv, TRUE)
    ELSE
    LET processed_df == add_img_dst_paths(ss, split_img_paths(df), DstFolder)
        copied == CopyLoop([files EXCEPT !.log = <<>>], processed_df,
                           Len(ss.model_versions), 1, present)
    IN  IF copied.raised THEN ExportResult(copied.fs, csv, TRUE)
        ELSE ExportResult(copied.fs, processed_df, FALSE)

-----------------------------------------------------------------------------
(* The environment: users, sessions, what they type and click *)

AllSessions == {1, 2}

EditLabels == {FRAME_LABELS[i] : i \in 1..MaxLabelChoice}
RowsChoices == {1, 10}
SortColumns == {cFrameId, cLabel}
DisplayTypes == {"Text", "Image"}

SourcesOf(df) == {df.rows[r][cImgCache].s : r \in 1..Len(df.rows)}
AllSources == SourcesOf(TableA) \cup SourcesOf(TableA2) \cup SourcesOf(TableB)
\* the source images found at export time: all of them, or all but frame 1's
PresentChoices == {AllSources, AllSources \ {TableA.rows[1][cImgCache].s,
                                              TableB.rows[1][cImgCache].s}}

\* a label file left by an earlier session
EarlierLabels == [k \in {S(mvA \o <<"_", "1">>)} |-> LabelCell(FRAME_LABELS[13])]
InitialLabelFiles == {NoFile, [exists |-> TRUE, rows |-> SavedRows(EarlierLabels)]}

NoInput == [kind |-> "none"]

\* history of the run: the last handler call ("view" for the calls that touch
\* no table and no label), by which session, whether it ended without an
\* exception or error message; the calls made and how many are followed; per
\* session the label its latest edit gave each <<model_versions, frame_id>>
\* (an entry ends when a later edit writes the same frame key); the session
\* that last wrote the label file (0: none yet); per session the keys other
\* sessions wrote since its latest upload
Hist(op, sid, ok, edits, writer, foreign) ==
    [op |-> op, sid |-> sid, ok |-> ok, steps |-> hist.steps + 1,
     limit |-> hist.limit, edits |-> edits, writer |-> writer, foreign |-> foreign]

Start(limit) ==
    [op |-> "start", sid |-> 0, ok |-> TRUE, steps |-> 0, limit |-> limit,
     edits |-> [s \in AllSessions |-> EmptyDict], writer |-> 0,
     foreign |-> [s \in AllSessions |-> {}]]

Note(op, sid, ok) == Hist(op, sid, ok, hist.edits, hist.writer, hist.foreign)

MoreSteps == hist.steps < hist.limit

Init ==
    /\ session = [s \in AllSessions |-> EmptyDict]
    /\ label_file \in InitialLabelFiles
    /\ artifact = NoneDF
    /\ fs = NoFiles
    /\ hist = Start(MaxSteps)
    /\ pin = NoInput
    /\ pout = NoInput

\* main.py line 13: every script run starts with init_session_state
State(s) == init_session_state(session[s])

Loaded(ss) == ~IsNone(ss.current_df)

\* main.py lines 18-19
Upload(s, f) ==
    LET ss == State(s)
        r == handle_file_upload(ss, label_file, f)
        new == f # "None" /\ f # ss.uploaded_file
    IN  /\ MoreSteps
        /\ ss.page = PageUpload
        /\ session' = [session EXCEPT ![s] = r.ss]
        /\ hist' = Hist(IF new THEN "upload" ELSE "view", s, ~r.raised, hist.edits,
                        hist.writer,
                        IF new THEN [hist.foreign EXCEPT ![s] = {}] ELSE hist.foreign)
        /\ UNCHANGED <<label_file, artifact, fs, pin, pout>>

\* main.py lines 28-30
ApplySql(s, q) ==
    LET ss == State(s)
        r == apply_sql_query(ss, q)
    IN  /\ MoreSteps
        /\ ss.page = PageUpload
        /\ Loaded(ss)
        /\ session' = [session EXCEPT ![s] = [r.ss EXCEPT !.sql_query = q]]
        /\ hist' = Note("apply_sql", s, ~r.error)
        /\ UNCHANGED <<label_file, artifact, fs, pin, pout>>

\* main.py lines 31-33
AddColumn(s, q) ==
    LET ss == State(s)
        r == add_computed_column(ss, q)
    IN  /\ MoreSteps
        /\ ss.page = PageUpload
        /\ Loaded(ss)
        /\ session' = [session EXCEPT ![s] = [r.ss EXCEPT !.new_col_sql = q]]
        /\ hist' = Note("add_column", s, ~r.error)
        /\ UNCHANGED <<label_file, artifact, fs, pin, pout>>

\* DataManager.copy_original_to_current called on its own
Reset(s) ==
    LET ss == State(s)
    IN  /\ MoreSteps
        /\ Loaded(ss)
        /\ session' = [session EXCEPT ![s] = copy_original_to_current(ss)]
        /\ hist' = Note("reset", s, TRUE)
        /\ UNCHANGED <<label_file, artifact, fs, pin, pout>>

\* main.py line 35
DisplaySettings(s, col, type) ==
    LET ss == State(s)
    IN  /\ MoreSteps
        /\ ss.page = PageUpload
        /\ Loaded(ss)
        /\ col \in ss.current_df.cols
        /\ session' = [session EXCEPT ![s] = display_settings(ss, col, type)]
        /\ hist' = Note("view", s, TRUE)
        /\ UNCHANGED <<label_file, artifact, fs, pin, pout>>

\* ui_components.py lines 37-47
SelectPage(s, p) ==
    LET ss == State(s)
    IN  /\ MoreSteps
        /\ session' = [session EXCEPT ![s] = select_page(ss, p)]
        /\ hist' = Note("view", s, TRUE)
        /\ UNCHANGED <<label_file, artifact, fs, pin, pout>>

\* ui_components.py lines 49-62
SetRowsPerPage(s, n) ==
    LET ss == State(s)
    IN  /\ MoreSteps
        /\ ss.page = PagePreview
        /\ Loaded(ss)
        /\ session' = [session EXCEPT ![s] = set_rows_per_page(ss, n)]
        /\ hist' = Note("view", s, TRUE)
        /\ UNCHANGED <<label_file, artifact, fs, pin, pout>>

\* ui_components.py lines 139-158; the Previous button comes before the page
\* input, the Next button after it
Paginate(s, click, n) ==
    LET ss == State(s)
    IN  /\ MoreSteps
        /\ ss.page = PagePreview
        /\ Loaded(ss)
        /\ click = "prev" \/ PageInputValid(ss)
        /\ click = "goto" => n \in 1..total_pages(ss)
        /\ click # "goto" => n = 1
        /\ session' = [session EXCEPT ![s] = pagination_controls(ss, click, n)]
        /\ hist' = Note("view", s, TRUE)
        /\ UNCHANGED <<label_file, artifact, fs, pin, pout>>

\* what display_data_preview needs to get past the pagination controls
PreviewShown(ss) == ss.page = PagePreview /\ Loaded(ss) /\ PageInputValid(ss)

\* ui_components.py lines 292-293
SortClick(s, c) ==
    LET ss == State(s)
    IN  /\ MoreSteps
        /\ PreviewShown(ss)
        /\ c \in ss.current_df.cols
        /\ session' = [session EXCEPT ![s] = handle_sort_click(ss, c)]
        /\ hist' = Note("view", s, TRUE)
        /\ UNCHANGED <<label_file, artifact, fs, pin, pout>>

\* ui_components.py lines 182-186, 204-207: the selectbox of a row on the page
LabelEdit(s, r_idx, new_label) ==
    LET ss == State(s)
        row == ss.current_df.rows[r_idx]
        r == handle_label_edit(ss, label_file, row[cLabel], row, r_idx, new_label)
        wrote == r.file # label_file \/ r.ss # ss
        key == get_frame_uuid(ss, row)
        kept == {e \in DOMAIN hist.edits[s] :
                    get_frame_uuid([ss EXCEPT !.model_versions = e[1]],
                                   [c \in {cFrameId} |-> e[2]]) # key}
        frame == <<ss.model_versions, row[cFrameId]>>
    IN  /\ MoreSteps
        /\ PreviewShown(ss)
        /\ cLabel \in ss.current_df.cols
        /\ DictGet(ss.display_types, cLabel, "Text") # "Image"
        /\ r_idx \in 1..Len(ss.current_df.rows)
        /\ r_idx \in PageRows(ss)
        /\ session' = [session EXCEPT ![s] = r.ss]
        /\ label_file' = r.file
        /\ hist' = IF wrote
                   THEN Hist("edit", s, TRUE,
                             [hist.edits EXCEPT ![s] =
                                 [e \in kept \cup {frame} |->
                                     IF e = frame THEN LabelCell(new_label) ELSE @[e]]],
                             s,
                             [t \in AllSessions |->
                                 IF t = s THEN hist.foreign[t]
                                 ELSE hist.foreign[t] \cup {key}])
                   ELSE Note("edit_none", s, ~r.raised)
        /\ UNCHANGED <<artifact, fs, pin, pout>>

\* main.py lines 40-41
Export(s, present) ==
    LET ss == State(s)
        r == save_current_df(ss, ss.current_df, fs, artifact, present)
    IN  /\ MoreSteps
        /\ ss.page = PagePreview
        /\ Loaded(ss) => PageInputValid(ss)
        /\ session' = [session EXCEPT ![s] = ss]
        /\ artifact' = r.csv
        /\ fs' = r.fs
        /\ hist' = Note("export", s, ~r.raised)
        /\ UNCHANGED <<label_file, pin, pout>>

\* main.py lines 10-37: a run that no change of the user started
Rerun(s) ==
    LET ss == State(s)
        r == rerun(ss, label_file)
    IN  /\ MoreSteps
        /\ session' = [session EXCEPT ![s] = r.ss]
        /\ label_file' = r.file
        /\ hist' = Note("rerun", s, ~r.raised)
        /\ UNCHANGED <<artifact, fs, pin, pout>>

\* one user, one session
Solo == CHOOSE s \in AllSessions : \A t \in AllSessions : s <= t

SoloFiles == {"single_a", "single_a2", "diff_ab", "empty", "no_frame_id",
              "None"}

Next ==
    \/ \E f \in SoloFiles : Upload(Solo, f)
    \/ \E q \in Queries : ApplySql(Solo, q)
    \/ \E q \in AddQueries : AddColumn(Solo, q)
    \/ Reset(Solo)
    \/ \E type \in DisplayTypes : DisplaySettings(Solo, cLabel, type)
    \/ \E p \in {PageUpload, PagePreview} : SelectPage(Solo, p)
    \/ \E n \in RowsChoices : SetRowsPerPage(Solo, n)
    \/ \E click \in {"prev", "goto", "next"}, n \in 1..2 : Paginate(Solo, click, n)
    \/ \E c \in SortColumns : SortClick(Solo, c)
    \/ \E r_idx \in 1..2, l \in EditLabels : LabelEdit(Solo, r_idx, l)
    \/ \E present \in PresentChoices : Export(Solo, present)
    \/ Rerun(Solo)

Spec == Init /\ [][Next]_vars

-----------------------------------------------------------------------------
(* One session, the handlers that touch the tables, the labels and the     *)
(* files, on more uploads and queries                                      *)

DataFiles == {"single_a", "diff_ab", "labelled", "empty", "no_version"}
DataQueries == {"select_all", "where_frame", "bad"}

NextData ==
    \/ \E f \in DataFiles : Upload(Solo, f)
    \/ \E q \in DataQueries : ApplySql(Solo, q)
    \/ \E q \in AddQueries : AddColumn(Solo, q)
    \/ Reset(Solo)
    \/ \E p \in {PageUpload, PagePreview} : SelectPage(Solo, p)
    \/ \E r_idx \in 1..2, l \in EditLabels : LabelEdit(Solo, r_idx, l)
    \/ \E present \in PresentChoices : Export(Solo, present)

SpecData == Init /\ [][NextData]_vars

-----------------------------------------------------------------------------
(* Properties of one session *)

KeyText(model_versions, frame_id) ==
    IF Len(model_versions) = 1
    THEN model_versions[1].s \o <<"_">> \o str(frame_id)
    ELSE model_versions[1].s \o <<"_">> \o model_versions[2].s \o <<"_">> \o str(frame_id)

KeyFormatOn(ss, df) ==
    \A i \in 1..Len(df.rows) :
        LET row == df.rows[i]
            M == ss.model_versions
        IN  (/\ cFrameId \in DOMAIN row
             /\ Len(M) \in {1, 2}
             /\ \A j \in 1..Len(M) : M[j].t = "str") =>
                /\ get_frame_uuid(ss, row) = S(KeyText(M, row[cFrameId]))
                /\ get_frame_uuid(ss, row) =
                       get_frame_uuid([session_defaults EXCEPT !.model_versions = M],
                                      [c \in {cFrameId} |-> row[cFrameId]])

\* C2: on every row of both tables, in every state of the session,
\* get_frame_uuid is the model versions and the frame id joined by "_", and
\* is the same as on a fresh session state and a row that share nothing with
\* them but model_versions and frame_id
FrameKeyFormat ==
    LET ss == State(Solo)
    IN  /\ ~IsNone(ss.df) => KeyFormatOn(ss, ss.df)
        /\ ~IsNone(ss.current_df) => KeyFormatOn(ss, ss.current_df)

\* a label of a diff table is edited in a sorted preview: the key is taken
\* with two model versions in a session state far from the fresh one
FrameKeyFormatWitness ==
    /\ hist.op = "edit"
    /\ Len(session[Solo].model_versions) = 2
    /\ session[Solo].sort_column # <<>>
    /\ session[Solo].frame_labels # EmptyDict

ExportedIds(agree) ==
    (hist.op = "export" /\ hist.ok) =>
        LET ss == session[Solo]
        IN  \A r \in 1..Len(artifact.rows), i \in 1..Len(ss.model_versions) :
                LET id == artifact.rows[r][Indexed(<<"img_uuid">>, i - 1)]
                    row == ss.current_df.rows[r]
                IN  /\ id = S(ss.model_versions[i].s \o <<"_">> \o str(row[cFrameId]))
                    /\ agree \/ Len(ss.model_versions) = 1 <=> id = get_frame_uuid(ss, row)

LabelerKeyOn(ss, df, always) ==
    \A i \in 1..Len(df.rows) :
        LET row == df.rows[i]
        IN  IF always \/ cFrameId \in DOMAIN row
            THEN labeler_get_frame_uuid(ss, row) = get_frame_uuid(ss, row)
            ELSE Raised(get_frame_uuid(ss, row))
                   /\ (Indexed(cFrameId, 0) \in DOMAIN row
                         => ~Raised(labeler_get_frame_uuid(ss, row)))

LabelerKeys(always) ==
    LET ss == State(Solo)
    IN  /\ ~IsNone(ss.df) => LabelerKeyOn(ss, ss.df, always)
        /\ ~IsNone(ss.current_df) => LabelerKeyOn(ss, ss.current_df, always)

\* the label the loader would attach to a frame is the one the editor wrote
\* for it
LoaderReadsEditorKey ==
    hist.op = "edit" =>
        LET ss == session[Solo]
        IN  \A i \in 1..Len(ss.current_df.rows) :
                LET row == ss.current_df.rows[i]
                    frame == <<ss.model_versions, row[cFrameId]>>
                IN  frame \in DOMAIN hist.edits[Solo] =>
                        LoaderLabel(ss, row) = hist.edits[Solo][frame]

\* C3 as stated: the exporter's image ids are the frame keys of the loader
\* and the editor, and table_labeler.get_frame_uuid equals
\* DataManager.get_frame_uuid on every row
KeysAgreeEverywhere ==
    /\ ExportedIds(TRUE)
    /\ LabelerKeys(TRUE)

\* C3: the loader looks up the key the editor writes; the exporter's
\* img_uuid_i is model_versions[i] + "_" + str(frame_id), the frame key
\* exactly when there is one model version; table_labeler.get_frame_uuid
\* equals DataManager.get_frame_uuid on the rows that have a frame_id, and
\* where only frame_id_0 is left the first still answers and the second raises
KeysAgreeWhereDerivedAlike ==
    /\ LoaderReadsEditorKey
    /\ ExportedIds(FALSE)
    /\ LabelerKeys(FALSE)

\* a diff table is exported: two image ids per row, neither the frame key
KeysAgreeWitness ==
    /\ hist.op = "export" /\ hist.ok
    /\ Len(session[Solo].model_versions) = 2
    /\ Len(artifact.rows) > 0
    /\ artifact.rows[1][Indexed(<<"img_uuid">>, 1)]
           # get_frame_uuid(session[Solo], session[Solo].current_df.rows[1])

\* C6: right after a label edit data/labels.csv holds exactly the session's
\* map, and right after a new upload made while the file exists the map is
\* what the file holds
LabelFileFollowsMap ==
    /\ hist.op = "edit" =>
          /\ label_file.exists
          /\ label_file.rows = SavedRows(session[Solo].frame_labels)
          /\ read_frame_labels(label_file) = session[Solo].frame_labels
    /\ (hist.op = "upload" /\ label_file.exists) =>
          session[Solo].frame_labels = read_frame_labels(label_file)

\* an edit has written a map of two entries, the new one among them
LabelFileWitness ==
    /\ hist.op = "edit"
    /\ Cardinality(label_file.rows) >= 2
    /\ hist.edits[Solo] # EmptyDict
    /\ \A frame \in DOMAIN hist.edits[Solo] :
          [uuid |-> KeyText(frame[1], frame[2]), label |-> hist.edits[Solo][frame].s]
              \in label_file.rows

\* C8 as stated: an Apply whose query fails leaves current_df as it was
\* before the call
FailedApplyKeepsCurrent ==
    [][(hist'.op = "apply_sql" /\ ~hist'.ok) =>
          session'[Solo].current_df = State(Solo).current_df]_vars

SqlKeys == {"current_df", "current_page", "sql_query", "new_col_sql"}

\* C9: no call but an upload changes df; the SQL handlers change nothing of
\* the session but current_df, the page number and the query text; after
\* copy_original_to_current current_df equals df
OriginalTableKept ==
    [][/\ hist'.op # "upload" => session'[Solo].df = State(Solo).df
       /\ hist'.op \in {"apply_sql", "add_column"} =>
             \A k \in DOMAIN session_defaults \ SqlKeys :
                 session'[Solo][k] = State(Solo)[k]
       /\ hist'.op = "reset" => session'[Solo].current_df = session'[Solo].df]_vars

\* a label was edited in the working table, which was then reset: it is the
\* original table again, which never saw the edit
OriginalTableWitness ==
    /\ hist.op = "reset"
    /\ hist.edits[Solo] # EmptyDict
    /\ session[Solo].current_df = session[Solo].df
    /\ \A i \in 1..Len(session[Solo].df.rows) :
          session[Solo].df.rows[i][cLabel] = LabelCell(FRAME_LABELS[1])


-----------------------------------------------------------------------------
(* Two sessions on one label file: uploads, page changes and label edits *)

MultiFiles == {"single_a", "single_a2"}

InitMulti ==
    /\ session = [s \in AllSessions |-> EmptyDict]
    /\ label_file \in InitialLabelFiles
    /\ artifact = NoneDF
    /\ fs = NoFiles
    /\ hist = Start(MaxStepsMulti)
    /\ pin = NoInput
    /\ pout = NoInput

NextMulti ==
    \/ \E s \in AllSessions, f \in MultiFiles : Upload(s, f)
    \/ \E s \in AllSessions, p \in {PageUpload, PagePreview} : SelectPage(s, p)
    \/ \E s \in AllSessions, r_idx \in 1..2, l \in EditLabels : LabelEdit(s, r_idx, l)

SpecMulti == InitMulti /\ [][NextMulti]_vars

\* C7: once a session has written the label file, the file is the map of the
\* session that wrote last and of no other, so a key another session wrote
\* since the last writer's latest upload is in the file only as the last
\* writer's own entry
LastWriterWins ==
    hist.writer # 0 =>
        LET mine == session[hist.writer].frame_labels
        IN  /\ label_file.exists
            /\ label_file.rows = SavedRows(mine)
            /\ read_frame_labels(label_file) = mine
            /\ \A k \in hist.foreign[hist.writer] :
                  k \in DOMAIN read_frame_labels(label_file) => k \in DOMAIN mine

\* a lost update: the other session's entry, written after the last writer's
\* latest upload, is gone from the file
LostUpdateWitness ==
    /\ hist.writer # 0
    /\ \E k \in hist.foreign[hist.writer] : k \notin DOMAIN read_frame_labels(label_file)

-----------------------------------------------------------------------------
(* The pure functions, each on inputs of its own *)

KeyTexts == {<<"a">>, <<"b">>, <<"a", "_", "b">>, <<"1">>}
VersionLists ==
    {<<S(x)>> : x \in KeyTexts} \cup {<<S(x), S(y)>> : x, y \in KeyTexts}
KeyFrameIds == {I(1), I(2), S(<<"b", "_", "1">>)}

\* frame_key(M, F): get_frame_uuid in a session whose model_versions is M, on
\* a row whose frame_id is F
frame_key(model_versions, frame_id) ==
    get_frame_uuid([session_defaults EXCEPT !.model_versions = model_versions],
                   [c \in {cFrameId} |-> frame_id])

\* label maps: frame keys to labels
MapKeys ==
    {frame_key(<<S(<<"a">>)>>, I(1)), frame_key(<<S(<<"a">>)>>, I(2)),
     frame_key(<<S(<<"1">>)>>, I(2)), frame_key(<<S(<<"a">>), S(<<"b">>)>>, I(1))}
LabelMaps ==
    UNION {[D -> {LabelCell(l) : l \in EditLabels}] : D \in SUBSET MapKeys}

Metrics == 0..MaxMetric

\* cache paths: artifact root directory / model version / media / frame.png,
\* one under a model version named "a,b"
CachePaths ==
    {<<"a", "/media/", "1", ".png">>, <<"b", "/media/", "1", ".png">>,
     <<"a", ",", "b", "/media/", "1", ".png">>}

\* a session that uploaded p.file, added a column by the query p.earlier,
\* shows one row per page and is on page p.page
SqlSession(p) ==
    LET ss == handle_file_upload(session_defaults, NoFile, p.file).ss
        ss1 == IF p.earlier = "none" THEN ss ELSE add_computed_column(ss, p.earlier).ss
    IN  [ss1 EXCEPT !.rows_per_page = 1, !.current_page = p.page]

\* values some keys of st.session_state hold from earlier runs
EarlierValues ==
    [current_page |-> 2, rows_per_page |-> 1, page |-> PagePreview,
     uploaded_file |-> "single_a", sort_column |-> cFrameId,
     sort_ascending |-> FALSE, model_versions |-> <<S(mvA)>>]

\* how many model versions, and how many run ids, the command line gives
RunCounts == 0..3

PureInputs ==
    {[kind |-> "key", m1 |-> m1, f1 |-> f1, m2 |-> m2, f2 |-> f2] :
        m1 \in VersionLists, f1 \in KeyFrameIds, m2 \in VersionLists, f2 \in KeyFrameIds}
    \cup {[kind |-> "labels", map |-> m] : m \in LabelMaps}
    \cup {[kind |-> "combine", a |-> a, b |-> b, fids |-> fids, extra |-> extra] :
            a \in [1..2 -> Metrics], b \in [1..2 -> Metrics],
            fids \in {<<1, 2>>, <<2, 1>>}, extra \in SUBSET {1, 2}}
    \cup {[kind |-> "paths", p0 |-> p0, p1 |-> p1] : p0 \in CachePaths, p1 \in CachePaths}
    \cup [kind : {"export"}, file : {"single_a", "diff_ab", "diff_aa"},
          present : PresentChoices]
    \cup {[kind |-> "state", ss |-> [k \in D |-> EarlierValues[k]]] :
            D \in SUBSET DOMAIN EarlierValues}
    \cup [kind : {"cli"}, m : RunCounts, r : RunCounts]
    \cup {p \in [kind : {"sql"}, file : {"single_a", "diff_ab"},
                 earlier : {"none", "where_frame", "bonus"}, page : 1..2,
                 query : AddQueries] :
            p.page <= Len(SqlSession(p).current_df.rows)}

InitPure ==
    /\ session = [s \in AllSessions |-> EmptyDict]
    /\ label_file = NoFile
    /\ artifact = NoneDF
    /\ fs = NoFiles
    /\ hist = Start(0)
    /\ pin \in PureInputs
    /\ pout = NoInput

FrameKeys ==
    /\ pin.kind = "key" /\ pout = NoInput
    /\ pout' = [kind |-> "key", k1 |-> frame_key(pin.m1, pin.f1),
                k2 |-> frame_key(pin.m2, pin.f2)]
    /\ UNCHANGED <<session, label_file, artifact, fs, hist, pin>>

\* the map is saved by one session and loaded by the upload of another
RoundTrip ==
    /\ pin.kind = "labels" /\ pout = NoInput
    /\ pout' = [kind |-> "labels",
                map |-> LoadLabelsOnUpload(session_defaults,
                            save_frame_labels([session_defaults EXCEPT
                                                  !.frame_labels = pin.map])).frame_labels]
    /\ UNCHANGED <<session, label_file, artifact, fs, hist, pin>>

\* download_table.py lines 59-63: a per-model table, with one more column of
\* the run when extra
RunTable(mv, fids, metrics, extra) ==
    IF extra
    THEN SetColumn(SingleTable(mv, fids, metrics), cBonus,
                   [i \in 1..Len(fids) |-> I(2 * metrics[i])])
    ELSE SingleTable(mv, fids, metrics)

\* download_table.py lines 47-77: the table of model A, then the table of
\* model B
DfList(p) ==
    <<RunTable(mvA, <<1, 2>>, p.a, 1 \in p.extra),
      RunTable(mvB, p.fids, p.b, 2 \in p.extra)>>

\* download_table.py line 79
Combine ==
    /\ pin.kind = "combine" /\ pout = NoInput
    /\ pout' = [kind |-> "combine",
                df |-> combine_tables(DfList(pin), cImgCache, cMetric)]
    /\ UNCHANGED <<session, label_file, artifact, fs, hist, pin>>

\* the cache paths of two one-row tables are joined by combine_tables and
\* split again by the export
SplitJoined ==
    /\ pin.kind = "paths" /\ pout = NoInput
    /\ pout' = [kind |-> "paths",
                df |-> split_img_paths(
                         combine_tables(
                           <<SetColumn(SingleTable(mvA, <<1>>, <<0>>), cImgCache, <<S(pin.p0)>>),
                             SetColumn(SingleTable(mvB, <<1>>, <<0>>), cImgCache, <<S(pin.p1)>>)>>,
                           cImgCache, cMetric))]
    /\ UNCHANGED <<session, label_file, artifact, fs, hist, pin>>

\* main.py lines 31-32: "Add Column" clicked with the query typed
AddOnSession ==
    /\ pin.kind = "sql" /\ pout = NoInput
    /\ pout' = [kind |-> "sql", r |-> add_computed_column(SqlSession(pin), pin.query)]
    /\ UNCHANGED <<session, label_file, artifact, fs, hist, pin>>

\* a session that uploaded p.file
ExportSession(p) == handle_file_upload(session_defaults, NoFile, p.file).ss

\* main.py lines 39-40: "Download table" clicked
ExportOnSession ==
    /\ pin.kind = "export" /\ pout = NoInput
    /\ pout' = [kind |-> "export",
                r |-> save_current_df(ExportSession(pin), ExportSession(pin).current_df,
                                      NoFiles, NoneDF, pin.present)]
    /\ UNCHANGED <<session, label_file, artifact, fs, hist, pin>>

\* data_manager.py lines 67-75 on a table read from the uploaded file, in a
\* session without label file
LoadTable(ss, table) ==
    LET r3 == init_model_versions([ss EXCEPT !.df = table])
        r4 == init_frame_labels(r3.ss)
    IN  IF r3.raised THEN r3
        ELSE IF r4.raised THEN r4
        ELSE Done([r4.ss EXCEPT !.current_df = r4.ss.df,
                                !.display_types = EmptyDict,
                                !.labels = EmptyDict,
                                !.current_page = 1,
                                !.uploaded_file = "combined"])

\* the table download_table.py wrote is uploaded, the label of its first row
\* is edited and the table is exported
LoadCombined ==
    /\ pin.kind = "combine" /\ pout = NoInput
    /\ LET table == combine_tables(DfList(pin), cImgCache, cMetric)
           r == LoadTable(session_defaults, table)
           ss == [r.ss EXCEPT !.page = PagePreview]
           edit == IF r.raised THEN EditResult(ss, NoFile, TRUE)
                   ELSE handle_label_edit(ss, NoFile, ss.current_df.rows[1][cLabel],
                                          ss.current_df.rows[1], 1, FRAME_LABELS[2])
       IN  pout' = [kind |-> "loaded", load |-> r, edit |-> edit,
                    export |-> save_current_df(edit.ss, edit.ss.current_df, NoFiles,
                                               NoneDF, AllSources)]
    /\ UNCHANGED <<session, label_file, artifact, fs, hist, pin>>

\* main.py line 13, on a session state that holds some keys, and again on
\* the next run
InitState ==
    /\ pin.kind = "state" /\ pout = NoInput
    /\ pout' = [kind |-> "state", once |-> init_session_state(pin.ss),
                twice |-> init_session_state(init_session_state(pin.ss))]
    /\ UNCHANGED <<session, label_file, artifact, fs, hist, pin>>

\* download_table.py lines 47-77: one table per pair of zip(model_versions,
\* run_ids)
CliTables(p) ==
    SubSeq(<<TableA, TableB, TableA2>>, 1, IF p.m <= p.r THEN p.m ELSE p.r)

\* download_table.py lines 79-82: the combined table and the file written
CombineCli ==
    /\ pin.kind = "cli" /\ pout = NoInput
    /\ LET df_combined == combine_tables(CliTables(pin), cImgCache, cMetric)
       IN  pout' = [kind |-> "cli", df |-> df_combined,
                    csv |-> IF Raised(df_combined) THEN NoneDF ELSE df_combined]
    /\ UNCHANGED <<session, label_file, artifact, fs, hist, pin>>

NextPure ==
    \/ FrameKeys
    \/ RoundTrip
    \/ Combine
    \/ SplitJoined
    \/ AddOnSession
    \/ ExportOnSession
    \/ LoadCombined
    \/ InitState
    \/ CombineCli

SpecPure == InitPure /\ [][NextPure]_vars

\* C4 as stated: two frame keys are equal only when the model-version lists
\* are equal and the frame ids are equal
FrameKeyInjective ==
    pout.kind = "key" =>
        (pout.k1 = pout.k2 => pin.m1 = pin.m2 /\ pin.f1 = pin.f2)

\* C5: the map loaded from the file save_frame_labels wrote is the map saved
LabelMapRoundTrip ==
    pout.kind = "labels" => pout.map = pin.map

\* a map of several entries, one under a key of digits and an underscore,
\* has made the round trip
LabelMapRoundTripWitness ==
    /\ pout.kind = "labels"
    /\ Cardinality(DOMAIN pin.map) >= 3
    /\ frame_key(<<S(<<"1">>)>>, I(2)) \in DOMAIN pout.map
    /\ \E j, k \in DOMAIN pout.map : pout.map[j] # pout.map[k]

\* C10: in every row metric_diff is the metric of the second table minus the
\* metric of the first, rows paired by position, and not the reverse
MetricDiffIsSecondMinusFirst ==
    pout.kind = "combine" =>
        \A i \in 1..2 :
            LET diff == pout.df.rows[i][cMetric \o <<"_diff">>]
            IN  /\ diff = I(pin.b[i] - pin.a[i])
                /\ pin.a[i] # pin.b[i] => diff # I(pin.a[i] - pin.b[i])
                /\ pout.df.rows[i][Indexed(cMetric, 0)] = I(pin.a[i])
                /\ pout.df.rows[i][Indexed(cMetric, 1)] = I(pin.b[i])

\* the second table is the smaller in one row and the larger in the other,
\* and lists the frames in another order
MetricDiffWitness ==
    /\ pout.kind = "combine"
    /\ pin.fids = <<2, 1>>
    /\ pout.df.rows[1][cMetric \o <<"_diff">>].n < 0
    /\ pout.df.rows[2][cMetric \o <<"_diff">>].n > 0


Suffixed(cols, digit) == {c \o <<"_", digit>> : c \in cols}

SplitRecoversPaths ==
    pout.kind = "paths" =>
        /\ pout.df.rows[1][Indexed(cImgCache, 0)] = S(pin.p0)
        /\ pout.df.rows[1][Indexed(cImgCache, 1)] = S(pin.p1)
        /\ Indexed(cImgCache, 2) \notin pout.df.cols


\* the (source, destination) pairs an export copies: model by model, and
\* for each model row by row of the exported table
ExportPairs(df, n) ==
    [k \in 1..(n * Len(df.rows)) |->
        LET i == (k - 1) \div Len(df.rows)
            r == ((k - 1) % Len(df.rows)) + 1
        IN  [src |-> df.rows[r][cImgCache \o <<"_">> \o Digits(i)].s,
             dst |-> df.rows[r][<<"img_dst", "_">> \o Digits(i)].s]]

\* the log handles the pairs one by one, in order: a warning for the pair, or
\* the making of the destination's directory and then the copy
RECURSIVE LogHandles(_, _)
LogHandles(log, pairs) ==
    IF Len(pairs) = 0 THEN Len(log) = 0
    ELSE IF Len(log) = 0 THEN FALSE
    ELSE IF log[1] = [ev |-> "warn", src |-> pairs[1].src]
    THEN LogHandles(Tail(log), Tail(pairs))
    ELSE /\ Len(log) >= 2
         /\ log[1] = [ev |-> "mkdir", dir |-> dirname(pairs[1].dst)]
         /\ log[2] = [ev |-> "copy", src |-> pairs[1].src, dst |-> pairs[1].dst]
         /\ LogHandles(Tail(Tail(log)), Tail(pairs))

UploadKeys == {"df", "current_df", "model_versions", "frame_labels", "uploaded_file"}

\* C14 as stated: an upload that fails because the table has no rows, or has
\* neither model_version nor both model_version_0 and model_version_1, leaves
\* df, current_df, model_versions, frame_labels and uploaded_file as they were
FailedUploadKeepsSession ==
    [][(/\ hist'.op = "upload" /\ ~hist'.ok
        /\ \/ Len(session'[Solo].df.rows) = 0
           \/ /\ cModelVersion \notin session'[Solo].df.cols
              /\ ~({Indexed(cModelVersion, 0), Indexed(cModelVersion, 1)}
                       \subseteq session'[Solo].df.cols))
          => \A k \in UploadKeys : session'[Solo][k] = State(Solo)[k]]_vars


\* C15: after a successful upload model_versions is the first row's
\* model_version when the table has that column, and else the first row's
\* model_version_0 and model_version_1, in that order, whatever it was before
ModelVersionsFromTable ==
    (hist.op = "upload" /\ hist.ok) =>
        LET ss == session[Solo]
            first == ss.df.rows[1]
        IN  /\ Len(ss.model_versions) \in {1, 2}
            /\ IF <<"model_version">> \in ss.df.cols
               THEN ss.model_versions = <<first[<<"model_version">>]>>
               ELSE ss.model_versions = <<first[<<"model_version", "_", "0">>],
                                          first[<<"model_version", "_", "1">>]>>

\* a diff table is uploaded in a session that edited a label under a
\* single-run table: two model versions replace the one
ModelVersionsWitness ==
    /\ hist.op = "upload" /\ hist.ok
    /\ session[Solo].uploaded_file = "diff_ab"
    /\ session[Solo].model_versions = <<S(<<"a">>), S(<<"b">>)>>
    /\ \E frame \in DOMAIN hist.edits[Solo] : Len(frame[1]) = 1


\* C16: FRAME_LABELS has 13 distinct entries, and the label map of a
\* session, the label file, and the label column a successful upload gives
\* the table hold members of FRAME_LABELS only
LabelsAreFrameLabels ==
    /\ Len(FRAME_LABELS) = 13
    /\ \A i, j \in 1..Len(FRAME_LABELS) : FRAME_LABELS[i] = FRAME_LABELS[j] => i = j
    /\ \A k \in DOMAIN State(Solo).frame_labels :
          IsFrameLabel(State(Solo).frame_labels[k])
    /\ \A r \in label_file.rows : IsFrameLabel(S(r.label))
    /\ (hist.op = "upload" /\ hist.ok) =>
          \A i \in 1..Len(session[Solo].df.rows) :
              IsFrameLabel(session[Solo].df.rows[i][cLabel])

\* an edit has written a label beside the one an earlier session left in
\* the file, and a later upload has read both into the table
LabelsAreFrameLabelsWitness ==
    /\ hist.op = "upload" /\ hist.ok
    /\ hist.edits[Solo] # EmptyDict
    /\ Cardinality({r.label : r \in label_file.rows}) = 2
    /\ \E i \in 1..Len(session[Solo].df.rows) :
          session[Solo].df.rows[i][cLabel] = LabelCell(FRAME_LABELS[13])
    /\ \E i \in 1..Len(session[Solo].df.rows) :
          session[Solo].df.rows[i][cLabel] = LabelCell(FRAME_LABELS[2])


LoadedLabelFromMap ==
    (hist.op = "upload" /\ hist.ok) =>
        LET ss == session[Solo]
        IN  /\ <<"label">> \in ss.df.cols
            /\ \A i \in 1..Len(ss.df.rows) :
                  LET key == S(KeyText(ss.model_versions, ss.df.rows[i][<<"frame_id">>]))
                  IN  ss.df.rows[i][<<"label">>] =
                          IF key \in DOMAIN ss.frame_labels
                          THEN ss.frame_labels[key]
                          ELSE S(<<"Pred:Bias">>)

\* the uploaded table came with the labels "Normal" and "car": row 1 gets
\* the default and row 2 the label an edit stored for its key
LoadedLabelWitness ==
    /\ hist.op = "upload" /\ hist.ok
    /\ session[Solo].uploaded_file = "labelled"
    /\ Files["labelled"].rows[1][cLabel] = S(<<"Normal">>)
    /\ Files["labelled"].rows[2][cLabel] = S(<<"car">>)
    /\ session[Solo].df.rows[1][cLabel] = S(<<"Pred:Bias">>)
    /\ session[Solo].df.rows[2][cLabel] = S(<<"Pred:FN">>)


\* C19: in every state of a session each row of current_df that has its
\* frame_id and label columns shows the label frame_labels holds under the
\* row's key, or "Pred:Bias" when it holds none
RowsShowMapLabel ==
    LET ss == State(Solo)
    IN  (Loaded(ss) /\ {cFrameId, cLabel} \subseteq ss.current_df.cols) =>
            \A i \in 1..Len(ss.current_df.rows) :
                LET key == get_frame_uuid(ss, ss.current_df.rows[i])
                IN  ss.current_df.rows[i][cLabel] =
                        IF key \in DOMAIN ss.frame_labels
                        THEN ss.frame_labels[key]
                        ELSE LabelCell(FRAME_LABELS[1])


\* C20: a successful Apply SQL leaves as working table the result of its
\* query on the original table df, whatever the working table was before;
\* a successful Add Column leaves the result of its query on the working
\* table it found
ApplyFreshAddCumulative ==
    [][/\ (hist'.op = "apply_sql" /\ hist'.ok) =>
              /\ session'[Solo].df = State(Solo).df
              /\ session'[Solo].current_df =
                     Engine(session'[Solo].sql_query, State(Solo).df)
       /\ (hist'.op = "add_column" /\ hist'.ok) =>
              /\ session'[Solo].df = State(Solo).df
              /\ session'[Solo].current_df =
                     Engine(session'[Solo].new_col_sql, State(Solo).current_df)]_vars

\* third call of the session: single_a was uploaded, Add Column added the
\* bonus column to the working table, and the Apply SQL that followed gave
\* a working table without it
ApplyFreshWitness ==
    /\ hist.op = "apply_sql" /\ hist.ok
    /\ hist.steps = 3
    /\ session[Solo].uploaded_file = "single_a"
    /\ session[Solo].new_col_sql = "bonus"
    /\ session[Solo].sql_query = "where_frame"
    /\ cBonus \notin session[Solo].current_df.cols
    /\ session[Solo].current_df = Engine("where_frame", session[Solo].df)
    /\ cBonus \in Engine("bonus", session[Solo].df).cols


\* C21: a run of the script in which the user changed nothing leaves df,
\* current_df, model_versions, frame_labels, current_page and the label
\* file as they were
RerunKeys == {"df", "current_df", "model_versions", "frame_labels", "current_page"}

RerunChangesNothing ==
    [][hist'.op = "rerun" =>
          /\ \A k \in RerunKeys : session'[Solo][k] = State(Solo)[k]
          /\ label_file' = label_file]_vars

\* the rerun of a preview whose working table has a column added by SQL and
\* a label set by an edit
RerunWitness ==
    /\ hist.op = "rerun" /\ hist.ok
    /\ Loaded(State(Solo))
    /\ session[Solo].page = PagePreview
    /\ cBonus \in session[Solo].current_df.cols
    /\ session[Solo].current_df # session[Solo].df
    /\ hist.edits[Solo] # EmptyDict
    /\ \E i \in 1..Len(session[Solo].current_df.rows) :
          session[Solo].current_df.rows[i][cLabel] # session[Solo].df.rows[i][cLabel]


\* C22: in every state with a loaded working table current_page is at
\* least 1 and at most ceil(rows / rows_per_page), and rows_per_page is
\* between 1 and 100
PageWithinTotal ==
    LET ss == State(Solo)
    IN  Loaded(ss) =>
            /\ 1 <= ss.rows_per_page /\ ss.rows_per_page <= 100
            /\ 1 <= ss.current_page
            /\ ss.current_page <= total_pages(ss)


\* what C23 says of the step of a new upload: df is the table of some file
\* other than the one held before, with a label column; current_df equals
\* df; display_types and labels are empty; current_page is 1; uploaded_file
\* is that file; the view and query keys are as before; and frame_labels is
\* as before when there is no label file
UploadKept == {"sort_column", "sort_ascending", "rows_per_page", "sql_query",
               "new_col_sql", "page"}

UploadEffect ==
    LET before == State(Solo)
        after == session'[Solo]
    IN  /\ \E f \in DOMAIN Files :
              /\ f # before.uploaded_file
              /\ after.uploaded_file = f
              /\ after.df.cols = Files[f].cols \cup {cLabel}
              /\ Project(after.df, Files[f].cols \ {cLabel})
                     = Project(Files[f], Files[f].cols \ {cLabel})
        /\ after.current_df = after.df
        /\ after.display_types = EmptyDict
        /\ after.labels = EmptyDict
        /\ after.current_page = 1
        /\ \A k \in UploadKept : after[k] = before[k]
        /\ ~label_file.exists => after.frame_labels = before.frame_labels

DestinationsDistinct ==
    (pout.kind = "export" /\ ~pout.r.raised) =>
        LET M == ExportSession(pin).model_versions
            df == pout.r.csv
            dst(i, r) == df.rows[r][<<"img_dst", "_">> \o Digits(i - 1)]
            fid(r) == df.rows[r][cFrameId]
        IN  /\ \A i \in 1..Len(M), r \in 1..Len(df.rows) :
                  dst(i, r) = S(DstFolder \o <<"/">> \o M[i].s \o <<"_">>
                                  \o str(fid(r)) \o <<".png">>)
            /\ \A i, j \in 1..Len(M), r1, r2 \in 1..Len(df.rows) :
                  <<i, fid(r1)>> # <<j, fid(r2)>> => dst(i, r1) # dst(j, r2)


SortKeys == {"sort_column", "sort_ascending"}

SortClickEffect ==
    [][/\ \A c \in SortColumns :
              SortClick(Solo, c) =>
                  LET before == State(Solo)
                      after == session'[Solo]
                  IN  /\ after.sort_column = c
                      /\ after.sort_ascending =
                             IF before.sort_column = c
                             THEN ~before.sort_ascending ELSE TRUE
                      /\ \A k \in DOMAIN before \ SortKeys : after[k] = before[k]
                      /\ handle_sort_click(handle_sort_click(after, c), c) = after
                      /\ label_file' = label_file
       /\ State(Solo).sort_column # <<>> => session'[Solo].sort_column # <<>>]_vars

\* fifth call of a session: a file uploaded, a column added by SQL, the
\* preview opened and the frame_id header clicked twice
SortClickWitness ==
    /\ hist.steps = 5
    /\ hist.op = "view"
    /\ Loaded(State(Solo))
    /\ session[Solo].page = PagePreview
    /\ session[Solo].sort_column = cFrameId
    /\ ~session[Solo].sort_ascending
    /\ cBonus \in session[Solo].current_df.cols


\* C27: init_session_state has 14 keys; it leaves every key the session
\* holds as it is and gives every other key its default; a second call
\* changes nothing; on a fresh session df and current_df are None,
\* current_page is 1, rows_per_page 10, page "Data Upload & Configuration",
\* frame_labels and model_versions empty
InitKeepsExisting ==
    pout.kind = "state" =>
        /\ Cardinality(DOMAIN pout.once) = 14
        /\ \A k \in DOMAIN pin.ss : pout.once[k] = pin.ss[k]
        /\ \A k \in DOMAIN pout.once \ DOMAIN pin.ss : pout.once[k] = session_defaults[k]
        /\ pout.twice = pout.once
        /\ pin.ss = EmptyDict =>
              /\ pout.once.df = [none |-> TRUE]
              /\ pout.once.current_df = [none |-> TRUE]
              /\ pout.once.current_page = 1
              /\ pout.once.rows_per_page = 10
              /\ pout.once.page = "Data Upload & Configuration"
              /\ pout.once.frame_labels = EmptyDict
              /\ pout.once.model_versions = <<>>

\* the session held page 2 of the preview and no table keys
InitKeepsWitness ==
    /\ pout.kind = "state"
    /\ DOMAIN pin.ss = {"current_page", "page", "rows_per_page"}
    /\ pout.once.current_page = 2
    /\ pout.once.page = "Data Preview"
    /\ pout.once.sort_ascending


\* C28: combine_tables on a list of 0, 1 or 3 tables fails and no combined
\* file is written; on a list of two it gives a table
CombineNeedsTwo ==
    pout.kind = "cli" =>
        /\ Len(CliTables(pin)) # 2 => (Raised(pout.df) /\ IsNone(pout.csv))
        /\ Len(CliTables(pin)) = 2 => (~Raised(pout.df) /\ pout.csv = pout.df)

\* three model versions and three run ids
CombineNeedsTwoWitness ==
    /\ pout.kind = "cli"
    /\ pin.m = 3 /\ pin.r = 3
    /\ Len(CliTables(pin)) = 3
    /\ Raised(pout.df)
    /\ IsNone(pout.csv)


====
